---- MODULE Spec2Model ----
(***************************************************************************)
(* pretty_flexible_env_logger (src/src/lib.rs): the ten initialization     *)
(* entry points, the resolution of the filter source against the process   *)
(* environment, and the one-time registration of the global logger.        *)
(*                                                                         *)
(* Every call runs on a thread.  A call first runs the crate's own code    *)
(* down to the point where the builder is configured (the environment      *)
(* lookup of try_init_with / try_init_timed_with, formatted_builder() or   *)
(* formatted_timed_builder(), parse_filters), then performs                *)
(* builder.try_init(), the backend's commit on the global logger slot,     *)
(* and finally returns through its callers, where the non-try entry        *)
(* points unwrap() the result.  Calls of different threads interleave      *)
(* between these steps.                                                    *)
(***************************************************************************)
EXTENDS Naturals, Sequences, FiniteSets

\* ------------------------------------------------------------------ bounds

\* Number of threads that call the entry points.
NThreads == 2

\* Number of calls started in one run of the process.
MaxCalls == 2

Threads == 1..NThreads

\* ------------------------------------------------------------ value domains

\* Option<String>: <<>> is None, <<s>> is Some(s).
None == <<>>
Some(s) == <<s>>

\* Names the process environment may define.
EnvNames == {"RUST_LOG", "debug"}

\* Values a defined variable may hold ("" is a variable set to the empty text).
EnvValues == {"", "debug"}

\* Strings a caller passes as environment_or_inline_value or inside filters.
\* "a=info" is a directive that names no variable of the environment.
Sources == {"RUST_LOG", "debug", "a=info"}

\* Result<String, VarError> of std::env::var.
Ok(v) == <<"Ok", v>>
NotPresent == <<"Err", "NotPresent">>
NotUnicode == <<"Err", "NotUnicode">>
VarResults == {Ok(v) : v \in EnvValues} \cup {NotPresent, NotUnicode}

EntryPoints ==
    {"init", "init_timed", "try_init", "try_init_timed",
     "init_with", "init_timed_with", "try_init_with", "try_init_timed_with",
     "try_init_custom_string", "try_init_timed_custom_string"}

Parameterless == {"init", "init_timed", "try_init", "try_init_timed"}
WithSource == {"init_with", "init_timed_with", "try_init_with", "try_init_timed_with"}
Literal == {"try_init_custom_string", "try_init_timed_custom_string"}

\* The arguments a caller can pass to an entry point.
ArgsOf(ep) ==
    IF ep \in Parameterless THEN {None}
    ELSE IF ep \in WithSource THEN {Some(s) : s \in Sources}
    ELSE {None} \cup {Some(s) : s \in Sources}

\* -------------------------------------------------------------------- state

VARIABLES
    env,      \* the process environment: what std::env::var answers per name
    slot,     \* the global logger slot: "Unset" or "Set"
    logger,   \* the installed logger: <<>> or <<builder>>
    thread,   \* per thread: position and the call in flight
    winner,   \* history: <<>> or <<the call whose commit succeeded>>
    raced,    \* history: two calls were in flight before any commit
    started,  \* history: calls started
    okCount,  \* history: commits that returned Ok
    errCount  \* history: commits that returned Err(SetLoggerError)

vars == <<env, slot, logger, thread, winner, raced, started, okCount, errCount>>

\* ------------------------------------------------- the crate's functions

\* std::env::var(name) as the crate calls it.
env_var(name) == IF name \in DOMAIN env THEN env[name] ELSE NotPresent

\* What a function asks of the backend and how it treats the answer:
\* the builder variant, the directive handed to parse_filters (None: parse_filters
\* is not called), and whether the result is unwrapped on the way out.
Request(timed, directive, unwrap) ==
    [timed |-> timed, directive |-> directive, unwrap |-> unwrap]

\* Faulty variant: the literal entry point resolves Some(s) against the environment.
try_init_custom_string_resolving(filters) ==
    IF filters # None /\ env_var(filters[1])[1] = "Ok"
    THEN Request(FALSE, Some(env_var(filters[1])[2]), FALSE)
    ELSE Request(FALSE, filters, FALSE)

try_init_custom_string(filters) == Request(FALSE, filters, FALSE)

try_init_timed_custom_string(filters) == Request(TRUE, filters, FALSE)

\* Faulty variant: the value found is looked up again as a variable name.
try_init_with_relookup(environment_or_inline_value) ==
    LET r == env_var(environment_or_inline_value)
        v == IF r[1] = "Ok" THEN r[2] ELSE environment_or_inline_value
        r2 == env_var(v)
    IN  try_init_custom_string(IF r2[1] = "Ok" THEN Some(r2[2]) ELSE Some(v))

try_init_with(environment_or_inline_value) ==
    LET r == env_var(environment_or_inline_value)
        value == IF r[1] = "Ok" THEN Some(r[2])
                 ELSE Some(environment_or_inline_value)
    IN  try_init_custom_string(value)

try_init_timed_with(environment_or_inline_value) ==
    LET r == env_var(environment_or_inline_value)
        value == IF r[1] = "Ok" THEN Some(r[2])
                 ELSE Some(environment_or_inline_value)
    IN  try_init_timed_custom_string(value)

\* .unwrap() of the callee's result.
unwrap(req) == [req EXCEPT !.unwrap = TRUE]

\* Faulty variant: the result is dropped instead of unwrapped.
init_with_no_unwrap(environment_or_inline_value) ==
    try_init_with(environment_or_inline_value)

init_with(environment_or_inline_value) ==
    unwrap(try_init_with(environment_or_inline_value))

\* lib.rs:143 calls try_init_with, not try_init_timed_with.
init_timed_with(environment_or_inline_value) ==
    unwrap(try_init_with(environment_or_inline_value))

init == init_with("RUST_LOG")

init_timed == init_timed_with("RUST_LOG")

\* Faulty variant: no directive is applied when RUST_LOG cannot be read.
try_init_none_when_unset ==
    IF env_var("RUST_LOG")[1] = "Ok" THEN try_init_with("RUST_LOG")
    ELSE try_init_custom_string(None)

try_init == try_init_with("RUST_LOG")

try_init_timed == try_init_timed_with("RUST_LOG")

\* The public API: entry point ep called with arg.
Dispatch(ep, arg) ==
    CASE ep = "init" -> init
      [] ep = "init_timed" -> init_timed
      [] ep = "try_init" -> try_init
      [] ep = "try_init_timed" -> try_init_timed
      [] ep = "init_with" -> init_with(arg[1])
      [] ep = "init_timed_with" -> init_timed_with(arg[1])
      [] ep = "try_init_with" -> try_init_with(arg[1])
      [] ep = "try_init_timed_with" -> try_init_timed_with(arg[1])
      [] ep = "try_init_custom_string" -> try_init_custom_string(arg)
      [] ep = "try_init_timed_custom_string" -> try_init_timed_custom_string(arg)

\* The builder after formatted_builder()/formatted_timed_builder() and the
\* optional parse_filters.
BuilderOf(req) == [timed |-> req.timed, directive |-> req.directive]

\* Faulty variant: the commit always succeeds.
try_init_result_always_ok(b, s) == "Ok"

\* Faulty variant: check-then-set, calls in flight together all see the slot Unset.
try_init_result_check_then_set(b, s) ==
    IF s = "Unset" \/ raced THEN "Ok" ELSE "Err"

\* Faulty variant: a directive that is no level or module=level pair is an error.
try_init_result_strict(b, s) ==
    IF s = "Unset" /\ b.directive # Some("RUST_LOG") THEN "Ok" ELSE "Err"

\* b.try_init() on slot s: Ok exactly when no logger is installed yet.
try_init_result(b, s) == IF s = "Unset" THEN "Ok" ELSE "Err"

\* Faulty variant: a failed commit clears the slot.
slot_after_reset(s, r) == IF r = "Ok" THEN "Set" ELSE "Unset"

\* The slot after builder.try_init() answered r.
slot_after(s, r) == IF r = "Ok" THEN "Set" ELSE s

\* Faulty variant: the builder replaces the installed logger whatever the answer.
logger_after_replace(l, r, b) == <<b>>

\* The installed logger after builder.try_init() of builder b answered r.
logger_after(l, r, b) == IF r = "Ok" THEN <<b>> ELSE l

\* How the call ends for the caller once the backend answered r: a try-variant
\* hands r over and the thread goes on; unwrap() of Err panics.
after_return(req, r) == IF req.unwrap /\ r = "Err" THEN "panicked" ELSE "idle"

\* ------------------------------------------------------------------ actions

Idle == [pc |-> "idle", ep |-> "init", arg |-> None,
         req |-> Request(FALSE, None, FALSE)]

Init ==
    /\ env \in [EnvNames -> VarResults]
    /\ slot = "Unset"
    /\ logger = <<>>
    /\ thread = [t \in Threads |-> Idle]
    /\ winner = <<>>
    /\ raced = FALSE
    /\ started = 0
    /\ okCount = 0
    /\ errCount = 0

\* Thread t calls entry point ep with arg; the crate resolves the filter source
\* and configures a fresh builder.
Call(t, ep, arg) ==
    /\ thread[t].pc = "idle"
    /\ started < MaxCalls
    /\ thread' = [thread EXCEPT ![t] =
                    [pc |-> "built", ep |-> ep, arg |-> arg,
                     req |-> Dispatch(ep, arg)]]
    /\ raced' = (raced \/ (slot = "Unset" /\ \E u \in Threads : thread[u].pc = "built"))
    /\ started' = started + 1
    /\ UNCHANGED <<env, slot, logger, winner, okCount, errCount>>

\* Thread t runs builder.try_init(), which consumes the builder, and the result
\* travels back through the callers to the entry point's caller.
Commit(t) ==
    /\ thread[t].pc = "built"
    /\ LET r == try_init_result(BuilderOf(thread[t].req), slot)
       IN  /\ slot' = slot_after(slot, r)
           /\ logger' = logger_after(logger, r, BuilderOf(thread[t].req))
           /\ thread' = [thread EXCEPT ![t] =
                           [Idle EXCEPT !.pc = after_return(thread[t].req, r)]]
           /\ okCount' = IF r = "Ok" THEN okCount + 1 ELSE okCount
           /\ errCount' = IF r = "Ok" THEN errCount ELSE errCount + 1
           /\ winner' = IF r = "Ok"
                        THEN <<[ep |-> thread[t].ep, arg |-> thread[t].arg]>>
                        ELSE winner
    /\ UNCHANGED <<env, raced, started>>

Next ==
    \E t \in Threads :
        \/ \E ep \in EntryPoints : \E arg \in ArgsOf(ep) : Call(t, ep, arg)
        \/ Commit(t)

Spec == Init /\ [][Next]_vars


\* ------------------------------------------------------------- properties

TimedEntryPoints ==
    {"init_timed", "try_init_timed", "init_timed_with", "try_init_timed_with",
     "try_init_timed_custom_string"}

NonTry == {"init", "init_timed", "init_with", "init_timed_with"}

\* No call is between its builder and its commit.
AllCommitted == \A t \in Threads : thread[t].pc # "built"

\* Thread t performs its commit in this step.
Commits(t) == thread[t].pc = "built" /\ thread'[t].pc # "built"

\* The configuration the winning call built.
WinnerBuilder == BuilderOf(Dispatch(winner[1].ep, winner[1].arg))

\* C1: over any sequence of calls to the ten entry points exactly the first
\* commit succeeds: the slot is Set exactly when one call has succeeded, no
\* second call ever succeeds, and a call fails (AlreadyInitialized, or the
\* fatal stop of a non-try variant) only after one has succeeded.
C1_ExactlyFirstSucceeds ==
    /\ okCount <= 1
    /\ (slot = "Set") <=> (okCount = 1)
    /\ errCount >= 1 => okCount = 1
    /\ \A t \in Threads : thread[t].pc = "panicked" => okCount = 1

C1_Witness ==
    /\ okCount = 1
    /\ errCount = 1
    /\ \E t \in Threads : thread[t].pc = "panicked"

\* C2: after the first successful initialization the installed logger is the
\* timed variant exactly when the winning entry point is a timed one.
C2_TimedIffTimedEntryPoint ==
    winner # <<>> => (logger[1].timed <=> winner[1].ep \in TimedEntryPoints)

\* C3: the first successful initialization wins: once the slot is Set the
\* installed logger is the configuration (variant and directive) the winning
\* call built, also after every later, failed attempt.
C3_FirstWins ==
    slot = "Set" => winner # <<>> /\ logger = <<WinnerBuilder>>

C3_Witness ==
    /\ slot = "Set"
    /\ errCount >= 1
    /\ winner[1].ep = "try_init_timed_custom_string"
    /\ winner[1].arg = Some("a=info")
    /\ logger = <<[timed |-> TRUE, directive |-> Some("a=info")]>>

\* C4: when the calls of a run raced (two were in flight before any commit) and
\* all have committed, exactly one observed success, all others observed
\* AlreadyInitialized, and the installed configuration is wholly the winner's.
C4_RaceOneWinner ==
    raced /\ AllCommitted =>
        /\ okCount = 1
        /\ errCount = started - 1
        /\ winner # <<>>
        /\ logger = <<WinnerBuilder>>

C4_Witness ==
    /\ raced
    /\ AllCommitted
    /\ started = NThreads
    /\ okCount = 1
    /\ errCount = NThreads - 1

\* C5: in try_init_with and try_init_timed_with the directive applied to the
\* builder is the value of the variable named by the source when the lookup
\* succeeds (the empty string included), and the source itself when the
\* variable is unset or the lookup fails; the value is not looked up again.
C5_Resolution ==
    \A t \in Threads :
        (thread[t].pc = "built" /\ thread[t].ep \in {"try_init_with", "try_init_timed_with"}) =>
            LET s == thread[t].arg[1]
                set == s \in DOMAIN env /\ env[s] \notin {NotPresent, NotUnicode}
            IN  /\ set => thread[t].req.directive = <<env[s][2]>>
                /\ ~set => thread[t].req.directive = <<s>>

C5_Witness ==
    /\ env["RUST_LOG"] = Ok("debug")
    /\ env["debug"] = Ok("")
    /\ \E t \in Threads :
        /\ thread[t].pc = "built"
        /\ thread[t].ep = "try_init_with"
        /\ thread[t].arg = Some("RUST_LOG")
        /\ thread[t].req.directive = Some("debug")
    /\ \E t \in Threads :
        /\ thread[t].pc = "built"
        /\ thread[t].ep = "try_init_timed_with"
        /\ thread[t].arg = Some("a=info")
        /\ thread[t].req.directive = Some("a=info")

\* C6: the global logger slot is Unset or Set, changes only from Unset to Set,
\* never leaves Set, and a commit that finds it Set leaves the slot and the
\* installed logger as they were.
C6_SlotMonotone ==
    /\ [](slot \in {"Unset", "Set"} /\ ((slot = "Unset") <=> (logger = <<>>)))
    /\ [][/\ slot' # slot => slot = "Unset" /\ slot' = "Set"
          /\ slot = "Set" => slot' = "Set" /\ logger' = logger]_vars

C6_Witness ==
    /\ slot = "Set"
    /\ errCount >= 1
    /\ logger # <<>>

C8_LiteralBypass ==
    /\ \A t \in Threads :
        (thread[t].pc = "built" /\ thread[t].ep \in Literal) =>
            /\ thread[t].req.directive = thread[t].arg
            /\ thread[t].req.timed <=> thread[t].ep = "try_init_timed_custom_string"
    /\ (winner # <<>> /\ winner[1].ep \in Literal) =>
            logger[1].directive = winner[1].arg

C8_Witness ==
    /\ env["debug"] = Ok("")
    /\ winner # <<>>
    /\ winner[1].ep = "try_init_custom_string"
    /\ winner[1].arg = None
    /\ logger = <<[timed |-> FALSE, directive |-> None]>>
    /\ \E t \in Threads :
        /\ thread[t].pc = "built"
        /\ thread[t].ep = "try_init_timed_custom_string"
        /\ thread[t].arg = Some("debug")
        /\ thread[t].req.directive = Some("debug")

\* C9: a call produces an error only at its commit and only because the slot
\* was already Set: whatever the environment answers for the named variable,
\* a commit that finds the slot Unset succeeds.
C9_OnlyAlreadyInitialized ==
    [][\A t \in Threads : Commits(t) =>
          /\ (errCount' = errCount + 1 /\ okCount' = okCount) <=> slot = "Set"
          /\ (okCount' = okCount + 1 /\ errCount' = errCount) <=> slot = "Unset"]_vars

C9_Witness ==
    /\ env["RUST_LOG"] = NotUnicode
    /\ env["debug"] = NotPresent
    /\ okCount = 1
    /\ errCount = 0
    /\ winner[1].ep \in {"try_init", "try_init_timed"}
    /\ \E t \in Threads :
        /\ thread[t].pc = "built"
        /\ thread[t].ep = "try_init_with"
        /\ thread[t].arg = Some("debug")

\* The -with entry point a parameterless entry point stands for.
WithCounterpart(ep) ==
    CASE ep = "init" -> "init_with"
      [] ep = "init_timed" -> "init_timed_with"
      [] ep = "try_init" -> "try_init_with"
      [] ep = "try_init_timed" -> "try_init_timed_with"

\* C10: every non-literal entry point applies some directive; a parameterless
\* entry point asks what its -with counterpart asks when called with
\* "RUST_LOG"; when RUST_LOG cannot be read the directive is the literal
\* string "RUST_LOG", and otherwise it is the value of RUST_LOG.
C10_DefaultName ==
    \A t \in Threads :
        thread[t].pc = "built" =>
            /\ thread[t].ep \notin Literal => thread[t].req.directive # None
            /\ thread[t].ep \in Parameterless =>
                /\ thread[t].req = Dispatch(WithCounterpart(thread[t].ep), Some("RUST_LOG"))
                /\ thread[t].req.directive =
                     IF env["RUST_LOG"] \in {NotPresent, NotUnicode}
                     THEN Some("RUST_LOG")
                     ELSE Some(env["RUST_LOG"][2])

C10_Witness ==
    /\ env["RUST_LOG"] = NotPresent
    /\ \E t \in Threads :
        /\ thread[t].pc = "built"
        /\ thread[t].ep = "try_init"
        /\ thread[t].req.directive = Some("RUST_LOG")
    /\ \E t \in Threads :
        /\ thread[t].pc = "built"
        /\ thread[t].ep = "init_timed"
        /\ thread[t].req.directive = Some("RUST_LOG")

====
